---- MODULE Spec2Model ----
(***************************************************************************)
(* FilesystemCacheStorage (scrapy_httpcache/extensions/cache_storage/      *)
(* file_system.py): a cache of responses kept as six files per request     *)
(* under <cachedir>/<spider>/<key[0:2]>/<key>/.                            *)
(*                                                                         *)
(* store_response and retrieve_response are modelled statement by          *)
(* statement: every filesystem call is one step, so that callers in other  *)
(* processes, the clock and I/O failures can come between two of them.     *)
(* A byte string is a sequence of one-character strings; a path is a       *)
(* sequence of components, each component a sequence of strings.           *)
(***************************************************************************)
EXTENDS Integers, Sequences, FiniteSets, TLC

\* ------------------------------------------------------------------ bounds
MaxPuts == 2      \* store_response calls started in one behaviour
MaxTime == 2      \* the clock runs from 0 to MaxTime
MaxFaults == 1    \* filesystem faults in one behaviour

\* ------------------------------------------------------------- byte strings
Whitespace == {" ", "\t", "\r", "\n"}

RECURSIVE lstrip(_)
lstrip(b) == IF b # <<>> /\ Head(b) \in Whitespace THEN lstrip(Tail(b)) ELSE b

RECURSIVE rstrip(_)
rstrip(b) ==
  IF b # <<>> /\ b[Len(b)] \in Whitespace
  THEN rstrip(SubSeq(b, 1, Len(b) - 1))
  ELSE b

\* bytes.strip()
strip(b) == rstrip(lstrip(b))

\* bytes.splitlines(): lines end at \r\n, \r or \n; no empty last line
RECURSIVE splitlines_from(_, _)
splitlines_from(b, cur) ==
  IF b = <<>> THEN (IF cur = <<>> THEN <<>> ELSE <<cur>>)
  ELSE IF Head(b) = "\r" /\ Len(b) >= 2 /\ b[2] = "\n"
       THEN <<cur>> \o splitlines_from(SubSeq(b, 3, Len(b)), <<>>)
  ELSE IF Head(b) \in {"\r", "\n"}
       THEN <<cur>> \o splitlines_from(Tail(b), <<>>)
  ELSE splitlines_from(Tail(b), Append(cur, Head(b)))

splitlines(b) == splitlines_from(b, <<>>)

\* index of the first c in b, 0 when there is none (bytes.split(c, 1))
FindFirst(b, c) ==
  LET I == {i \in 1..Len(b) : b[i] = c}
  IN  IF I = {} THEN 0 ELSE CHOOSE i \in I : \A j \in I : i <= j

\* sep.join(lines)
RECURSIVE join(_, _)
join(sep, lines) ==
  IF lines = <<>> THEN <<>>
  ELSE IF Len(lines) = 1 THEN lines[1]
  ELSE lines[1] \o sep \o join(sep, Tail(lines))

\* bytes.title(): a letter that starts a word is upper-cased, any other letter
\* lower-cased; the letters of the model are x/X and y/Y
UpperOf == [c \in {"x", "y"} |-> IF c = "x" THEN "X" ELSE "Y"]
LowerOf == [c \in {"X", "Y"} |-> IF c = "X" THEN "x" ELSE "y"]
IsLetter(c) == c \in {"x", "y", "X", "Y"}

title(b) ==
  [i \in 1..Len(b) |->
     IF ~IsLetter(b[i]) THEN b[i]
     ELSE IF i = 1 \/ ~IsLetter(b[i - 1])
          THEN (IF b[i] \in DOMAIN UpperOf THEN UpperOf[b[i]] ELSE b[i])
          ELSE (IF b[i] \in DOMAIN LowerOf THEN LowerOf[b[i]] ELSE b[i])]

\* ------------------------------------------------------------------ headers
\* A headers dictionary is a sequence of <<name, <<value, ...>>>> in insertion
\* order, every name once.
DictAdd(d, k, v) ==
  IF \E i \in 1..Len(d) : d[i][1] = k
  THEN [i \in 1..Len(d) |->
          IF d[i][1] = k THEN <<k, Append(d[i][2], v)>> ELSE d[i]]
  ELSE Append(d, <<k, <<v>>>>)

\* w3lib.http.headers_dict_to_raw: one "name: value" line per value, joined
\* with \r\n
RawLinesOf(e) == [i \in 1..Len(e[2]) |-> e[1] \o <<":", " ">> \o e[2][i]]

RECURSIVE raw_lines(_)
raw_lines(d) ==
  IF d = <<>> THEN <<>> ELSE RawLinesOf(Head(d)) \o raw_lines(Tail(d))

headers_dict_to_raw(d) == join(<<"\r", "\n">>, raw_lines(d))

\* w3lib.http.headers_raw_to_dict: split into lines, each line at its first
\* colon, strip both halves; a line without a colon is dropped
RECURSIVE raw_to_dict_from(_, _)
raw_to_dict_from(lines, d) ==
  IF lines = <<>> THEN d
  ELSE LET h == Head(lines)
           c == FindFirst(h, ":")
       IN  raw_to_dict_from(
             Tail(lines),
             IF c = 0 THEN d
             ELSE DictAdd(d, strip(SubSeq(h, 1, c - 1)),
                          strip(SubSeq(h, c + 1, Len(h)))))

headers_raw_to_dict(raw) == raw_to_dict_from(splitlines(raw), <<>>)

\* scrapy.http.headers.Headers(dict): names title-cased, the values of names
\* that become equal merged
RECURSIVE HeadersFrom(_, _)
HeadersFrom(d, acc) ==
  IF d = <<>> THEN acc
  ELSE LET e == Head(d)
           k == title(e[1])
           withKey == IF \E i \in 1..Len(acc) : acc[i][1] = k
                      THEN acc ELSE Append(acc, <<k, <<>>>>)
       IN  HeadersFrom(
             Tail(d),
             [i \in 1..Len(withKey) |->
                IF withKey[i][1] = k
                THEN <<k, withKey[i][2] \o e[2]>>
                ELSE withKey[i]])

Headers(d) == HeadersFrom(d, <<>>)

\* the name/value pairs of a headers dictionary
HeaderPairs(d) ==
  UNION {{<<d[i][1], d[i][2][j]>> : j \in 1..Len(d[i][2])} : i \in 1..Len(d)}

\* ------------------------------------------------------------------- inputs
\* spider.name
Scopes == {<<"s1">>, <<"s2">>}

NoHeaders == <<>>

\* requests (url, method, headers, body)
Req1 == [url |-> "http://x/a", method |-> "GET",
         headers |-> NoHeaders, body |-> <<>>]
Req2 == [url |-> "http://x/b", method |-> "POST",
         headers |-> <<<<<<"X">>, <<<<"q">>>>>>>>, body |-> <<"q">>]
Requests == {Req1, Req2}

\* CacheStorage._request_key: the request's fingerprint, a string. The two
\* requests' keys share their first two characters.
_request_key(request) ==
  IF request = Req1 THEN <<"a", "b", "1">> ELSE <<"a", "b", "2">>

\* responses (url, status, headers, body); headers is a Headers object, its
\* names already title-cased
RespA == [url |-> "http://x/a", status |-> 200,
          headers |-> <<<<<<"X", "y">>, <<<<"t", "/", "h">>>>>>>>,
          body |-> <<"<html></html>">>]
\* redirected, two values under one name, a colon in a value, empty body
RespB == [url |-> "http://x/r", status |-> 404,
          headers |-> <<<<<<"Y">>, <<<<"v">>, <<"v", ":", "w">>>>>>,
                        <<<<"X", "y">>, <<<<"t">>>>>>>>,
          body |-> <<>>]
\* a header value that starts with a blank
RespW == [url |-> "http://x/a", status |-> 200,
          headers |-> <<<<<<"Y">>, <<<<" ", "v">>>>>>>>,
          body |-> <<"b">>]
Responses == {RespA, RespB, RespW}

\* HTTPCACHE_EXPIRATION_SECS
ExpirationChoices == {-1, 0, 1}

Procs == {"p1", "p2"}

\* -------------------------------------------------------------------- state
VARIABLES
  expiration_secs,  \* self.expiration_secs
  use_gzip,         \* self.use_gzip: self._open is gzip.open or open
  callers,          \* the processes that call into the storage
  now,              \* time()
  dirs,             \* the directories that exist below and including cachedir
  files,            \* path -> [chunks, mtime] for every file that exists
  proc,             \* per process: the call it is in and the call's locals
  nputs,            \* store_response calls started so far
  nfaults,          \* faults so far: calls that failed, files changed from outside
  hist              \* per (spider, key): the latest store_response on it

vars ==
  <<expiration_secs, use_gzip, callers, now, dirs, files, proc, nputs,
    nfaults, hist>>

\* the six files with the debug dump written after pickled_meta
ArtifactsPickleFirst ==
  <<"pickled_meta", "meta", "response_headers", "response_body",
    "request_headers", "request_body">>

Artifacts ==
  <<"meta", "pickled_meta", "response_headers", "response_body",
    "request_headers", "request_body">>

NoRequest == [url |-> "", method |-> "", headers |-> <<>>, body |-> <<>>]
NoResponse == [url |-> "", status |-> 0, headers |-> <<>>, body |-> <<>>]
NoMeta == [none |-> TRUE]
NoResult == [kind |-> "none"]

Idle ==
  [op |-> "idle", pc |-> "idle", spider |-> <<>>, request |-> NoRequest,
   response |-> NoResponse, rpath |-> <<>>, metadata |-> NoMeta, i |-> 0,
   id |-> 0, mtime |-> 0, tnow |-> 0, body |-> <<>>, from |-> <<0, 0, 0>>,
   up |-> 0, result |-> NoResult]

\* state: none, writing, complete, failed or legacy; n: the stores completed on
\* the entry; prev: the response of the store completed before the latest
NoHist ==
  [state |-> "none", n |-> 0, id |-> 0, request |-> NoRequest,
   response |-> NoResponse, metadata |-> NoMeta, prev |-> NoResponse]

EntryIds == {<<s, _request_key(r)>> : s \in Scopes, r \in Requests}

\* --------------------------------------------------------------- filesystem
\* os.path.join(path, name)
PathJoin(path, name) == Append(path, name)

\* a path that leaves the spider out: every spider in the directory of s1
SharedRequestPath(spider, request) ==
  LET key == _request_key(request)
  IN  <<<<"s1">>, SubSeq(key, 1, 2), key>>

\* _get_request_path: cachedir is the empty path
_get_request_path(spider, request) ==
  LET key == _request_key(request)
  IN  <<spider, SubSeq(key, 1, 2), key>>

\* an existence check that always says yes
ExistsAlways(path) == TRUE

\* os.path.exists
Exists(path) == path \in DOMAIN files \/ path \in dirs

\* what os.makedirs(path) creates: path and every ancestor, cachedir included
Ancestors(path) == {SubSeq(path, 1, n) : n \in 0..Len(path)}

\* open(path, "ab"): what the file holds stays
OpenAppending(path) ==
  (path :> [chunks |-> IF path \in DOMAIN files THEN files[path].chunks
                       ELSE <<>>,
            mtime |-> now]) @@ files

\* open(path, "wb"): the file is created, or emptied when it exists
OpenWB(path) == (path :> [chunks |-> <<>>, mtime |-> now]) @@ files

\* f.write(data) and the close that ends the with block
WriteClose(path, chunk) ==
  (path :> [chunks |-> Append(files[path].chunks, chunk), mtime |-> now])
    @@ files

\* self._open for writing: gzip.open compresses what is written
Encode(blob, id) == [gz |-> use_gzip, blob |-> blob, by |-> id]

\* a read that takes a missing file for an empty one
ReadFileLenient(path) ==
  IF path \notin DOMAIN files
  THEN [ok |-> TRUE, err |-> "", chunks |-> <<>>]
  ELSE [ok |-> TRUE, err |-> "", chunks |-> files[path].chunks]

\* self._open(path, "rb") and f.read(): FileNotFoundError for a missing file,
\* an error for content the transform cannot read, else what was written
\* (nothing for an empty file)
ReadFile(path) ==
  IF path \notin DOMAIN files
  THEN [ok |-> FALSE, err |-> "FileNotFoundError", chunks |-> <<>>]
  ELSE IF \E j \in 1..Len(files[path].chunks) :
            files[path].chunks[j].gz # use_gzip
  THEN [ok |-> FALSE, err |-> "BadTransform", chunks |-> <<>>]
  ELSE [ok |-> TRUE, err |-> "", chunks |-> files[path].chunks]

\* the bytes of a file of byte strings
RECURSIVE BytesOf(_)
BytesOf(chunks) ==
  IF chunks = <<>> THEN <<>>
  ELSE Head(chunks).blob.v \o BytesOf(Tail(chunks))

\* the put that wrote what a read returned (0: nothing read)
WriterOf(chunks) == IF chunks = <<>> THEN 0 ELSE chunks[Len(chunks)].by

\* ----------------------------------------------------------- store_response
\* metadata that records the request's url as the response's
BuildMetadataRequestUrl(request, response, t) ==
  [url |-> request.url, method |-> request.method,
   status |-> response.status, response_url |-> request.url,
   timestamp |-> t]

\* lines 64-70
BuildMetadata(request, response, t) ==
  [url |-> request.url, method |-> request.method,
   status |-> response.status, response_url |-> response.url,
   timestamp |-> t]

\* what lines 71-82 write into the i-th artifact
Payload(i, metadata, request, response) ==
  CASE i = 1 -> [t |-> "repr", v |-> metadata]
    [] i = 2 -> [t |-> "pickle", v |-> metadata]
    [] i = 3 -> [t |-> "bytes", v |-> headers_dict_to_raw(response.headers)]
    [] i = 4 -> [t |-> "bytes", v |-> response.body]
    [] i = 5 -> [t |-> "bytes", v |-> headers_dict_to_raw(request.headers)]
    [] OTHER -> [t |-> "bytes", v |-> request.body]

\* --------------------------------------------------------- retrieve_response
\* an entry of exactly the permitted age counted as expired
ExpiredAtBoundary(mtime, t) ==
  0 < expiration_secs /\ expiration_secs <= t - mtime

\* the age compared without asking whether expiration is enabled
ExpiredUnguarded(mtime, t) == expiration_secs < t - mtime

\* line 96
Expired(mtime, t) == 0 < expiration_secs /\ expiration_secs < t - mtime

\* pickle.load: EOFError on an empty file
Unpickle(chunks) ==
  IF chunks = <<>> \/ chunks[1].blob.t # "pickle"
  THEN [ok |-> FALSE, err |-> "EOFError", v |-> NoMeta]
  ELSE [ok |-> TRUE, err |-> "", v |-> chunks[1].blob.v]

\* metadata.get("response_url")
MetaResponseUrl(metadata) ==
  IF "response_url" \in DOMAIN metadata
  THEN [some |-> TRUE, url |-> metadata.response_url]
  ELSE [some |-> FALSE, url |-> ""]

\* lines 50-55: the response built from the metadata and the two files read;
\* the response class refuses a url that is not a string
BuildResponse(metadata, rawheaders, body, from) ==
  LET u == MetaResponseUrl(metadata)
  IN  IF ~u.some THEN [kind |-> "error", err |-> "TypeError"]
      ELSE [kind |-> "response", url |-> u.url, status |-> metadata.status,
            headers |-> Headers(headers_raw_to_dict(rawheaders)),
            body |-> body, from |-> from]

\* ------------------------------------------------------------------ actions
ArtifactPath(rpath, i) == PathJoin(rpath, <<Artifacts[i]>>)

EntryOf(p) == <<proc[p].spider, _request_key(proc[p].request)>>

Failed(p, err) ==
  [proc[p] EXCEPT !.pc = "done", !.result = [kind |-> "error", err |-> err]]

\* The caller starts store_response(spider, request, response); line 61. The
\* surrounding system never runs two stores of one key of one spider at once.
StoreBegin(p, spider, request, response) ==
  /\ p \in callers
  /\ proc[p].op = "idle"
  /\ nputs < MaxPuts
  /\ \A q \in Procs :
       ~(/\ proc[q].op = "store"
         /\ proc[q].pc # "done"
         /\ proc[q].spider = spider
         /\ _request_key(proc[q].request) = _request_key(request))
  /\ nputs' = nputs + 1
  /\ proc' = [proc EXCEPT ![p] =
       [Idle EXCEPT !.op = "store", !.pc = "exists", !.spider = spider,
                    !.request = request, !.response = response,
                    !.rpath = _get_request_path(spider, request),
                    !.id = nputs + 1]]
  /\ hist' = [hist EXCEPT ![<<spider, _request_key(request)>>] =
       [state |-> "writing", n |-> @.n, id |-> nputs + 1,
        request |-> request, response |-> response, metadata |-> NoMeta,
        prev |-> IF @.state = "complete" THEN @.response ELSE @.prev]]
  /\ UNCHANGED <<expiration_secs, use_gzip, callers, now, dirs, files, nfaults>>

\* lines 64-70, run once the directory is there
WithMetadata(p) ==
  [proc[p] EXCEPT
     !.pc = "open", !.i = 1,
     !.metadata = BuildMetadata(proc[p].request, proc[p].response, now)]

\* line 62
StoreExists(p) ==
  /\ proc[p].op = "store" /\ proc[p].pc = "exists"
  /\ IF Exists(proc[p].rpath)
     THEN /\ proc' = [proc EXCEPT ![p] = WithMetadata(p)]
          /\ hist' = [hist EXCEPT ![EntryOf(p)].metadata =
                        WithMetadata(p).metadata]
     ELSE /\ proc' = [proc EXCEPT ![p].pc = "makedirs"]
          /\ UNCHANGED hist
  /\ UNCHANGED <<expiration_secs, use_gzip, callers, now, dirs, files, nputs,
                 nfaults>>

\* line 63: os.makedirs raises FileExistsError when the directory exists by now
StoreMakedirs(p) ==
  /\ proc[p].op = "store" /\ proc[p].pc = "makedirs"
  /\ IF Exists(proc[p].rpath)
     THEN /\ proc' = [proc EXCEPT ![p] = Failed(p, "FileExistsError")]
          /\ hist' = [hist EXCEPT ![EntryOf(p)].state = "failed"]
          /\ UNCHANGED dirs
     ELSE /\ dirs' = dirs \cup Ancestors(proc[p].rpath)
          /\ proc' = [proc EXCEPT ![p] = WithMetadata(p)]
          /\ hist' = [hist EXCEPT ![EntryOf(p)].metadata =
                        WithMetadata(p).metadata]
  /\ UNCHANGED <<expiration_secs, use_gzip, callers, now, files, nputs,
                 nfaults>>

\* os.makedirs(rpath) call by call. It looks whether the head of its path
\* exists and calls itself on the head when not, passing over a
\* FileExistsError of that call; then it calls mkdir on its path. up counts
\* the nested calls: the innermost works on rpath without its last up
\* components. The directory above cachedir exists.
MakedirsName(p) == SubSeq(proc[p].rpath, 1, Len(proc[p].rpath) - proc[p].up)

\* os.makedirs: the os.path.exists of the head
StoreMakedirsHead(p) ==
  /\ proc[p].op = "store" /\ proc[p].pc = "makedirs"
  /\ IF \/ MakedirsName(p) = <<>>
        \/ Exists(SubSeq(MakedirsName(p), 1, Len(MakedirsName(p)) - 1))
     THEN proc' = [proc EXCEPT ![p].pc = "mkdir"]
     ELSE proc' = [proc EXCEPT ![p].up = @ + 1]
  /\ UNCHANGED <<expiration_secs, use_gzip, callers, now, dirs, files, nputs,
                 nfaults, hist>>

\* a mkdir whose FileExistsError leaves os.makedirs at every level
StoreMkdirStrict(p) ==
  /\ proc[p].op = "store" /\ proc[p].pc = "mkdir"
  /\ IF Exists(MakedirsName(p))
     THEN /\ proc' = [proc EXCEPT ![p] =
                        [Failed(p, "FileExistsError") EXCEPT !.up = 0]]
          /\ hist' = [hist EXCEPT ![EntryOf(p)].state = "failed"]
          /\ UNCHANGED dirs
     ELSE /\ dirs' = dirs \cup {MakedirsName(p)}
          /\ IF proc[p].up = 0
             THEN /\ proc' = [proc EXCEPT ![p] = WithMetadata(p)]
                  /\ hist' = [hist EXCEPT ![EntryOf(p)].metadata =
                                WithMetadata(p).metadata]
             ELSE /\ proc' = [proc EXCEPT ![p].up = @ - 1]
                  /\ UNCHANGED hist
  /\ UNCHANGED <<expiration_secs, use_gzip, callers, now, files, nputs,
                 nfaults>>

\* os.makedirs: the mkdir of a level. FileExistsError leaves line 63 when the
\* directory is rpath itself and is passed over when it is an ancestor.
StoreMkdir(p) ==
  /\ proc[p].op = "store" /\ proc[p].pc = "mkdir"
  /\ IF Exists(MakedirsName(p))
     THEN /\ UNCHANGED dirs
          /\ IF proc[p].up = 0
             THEN /\ proc' = [proc EXCEPT ![p] = Failed(p, "FileExistsError")]
                  /\ hist' = [hist EXCEPT ![EntryOf(p)].state = "failed"]
             ELSE /\ proc' = [proc EXCEPT ![p].up = @ - 1]
                  /\ UNCHANGED hist
     ELSE /\ dirs' = dirs \cup {MakedirsName(p)}
          /\ IF proc[p].up = 0
             THEN /\ proc' = [proc EXCEPT ![p] = WithMetadata(p)]
                  /\ hist' = [hist EXCEPT ![EntryOf(p)].metadata =
                                WithMetadata(p).metadata]
             ELSE /\ proc' = [proc EXCEPT ![p].up = @ - 1]
                  /\ UNCHANGED hist
  /\ UNCHANGED <<expiration_secs, use_gzip, callers, now, files, nputs,
                 nfaults>>

\* a refused directory that is passed over: the store goes on to its files
StoreMakedirsFailIgnored(p) ==
  /\ proc[p].op = "store" /\ proc[p].pc = "makedirs"
  /\ nfaults < MaxFaults
  /\ nfaults' = nfaults + 1
  /\ proc' = [proc EXCEPT ![p] = WithMetadata(p)]
  /\ hist' = [hist EXCEPT ![EntryOf(p)].metadata = WithMetadata(p).metadata]
  /\ UNCHANGED <<expiration_secs, use_gzip, callers, now, dirs, files, nputs>>

\* line 63 when the filesystem refuses a directory: the ancestors made before
\* the refusal stay
StoreMakedirsFail(p) ==
  /\ proc[p].op = "store" /\ proc[p].pc = "makedirs"
  /\ nfaults < MaxFaults
  /\ \E n \in 0..Len(proc[p].rpath) :
       dirs' = dirs \cup {SubSeq(proc[p].rpath, 1, k) : k \in 0..(n - 1)}
  /\ nfaults' = nfaults + 1
  /\ proc' = [proc EXCEPT ![p] = Failed(p, "OSError")]
  /\ hist' = [hist EXCEPT ![EntryOf(p)].state = "failed"]
  /\ UNCHANGED <<expiration_secs, use_gzip, callers, now, files, nputs>>

\* the open of lines 71, 73, 75, 77, 79, 81: FileNotFoundError without the
\* directory
StoreOpen(p) ==
  /\ proc[p].op = "store" /\ proc[p].pc = "open"
  /\ IF proc[p].rpath \in dirs
     THEN /\ files' = OpenWB(ArtifactPath(proc[p].rpath, proc[p].i))
          /\ proc' = [proc EXCEPT ![p].pc = "write"]
          /\ UNCHANGED hist
     ELSE /\ proc' = [proc EXCEPT ![p] = Failed(p, "FileNotFoundError")]
          /\ hist' = [hist EXCEPT ![EntryOf(p)].state = "failed"]
          /\ UNCHANGED files
  /\ UNCHANGED <<expiration_secs, use_gzip, callers, now, dirs, nputs,
                 nfaults>>

\* the open fails: nothing is created or emptied, the error leaves the call
StoreOpenFail(p) ==
  /\ proc[p].op = "store" /\ proc[p].pc = "open"
  /\ nfaults < MaxFaults
  /\ nfaults' = nfaults + 1
  /\ proc' = [proc EXCEPT ![p] = Failed(p, "OSError")]
  /\ hist' = [hist EXCEPT ![EntryOf(p)].state = "failed"]
  /\ UNCHANGED <<expiration_secs, use_gzip, callers, now, dirs, files, nputs>>

\* the write of lines 72, 74, 76, 78, 80, 82 and the end of its with block
StoreWrite(p) ==
  /\ proc[p].op = "store" /\ proc[p].pc = "write"
  /\ files' = WriteClose(
       ArtifactPath(proc[p].rpath, proc[p].i),
       Encode(Payload(proc[p].i, proc[p].metadata, proc[p].request,
                      proc[p].response),
              proc[p].id))
  /\ IF proc[p].i = Len(Artifacts)
     THEN /\ proc' = [proc EXCEPT ![p].pc = "done",
                                  ![p].result = [kind |-> "stored"]]
          /\ hist' = [hist EXCEPT ![EntryOf(p)].state = "complete",
                                  ![EntryOf(p)].n = @ + 1]
     ELSE /\ proc' = [proc EXCEPT ![p].pc = "open", ![p].i = @ + 1]
          /\ UNCHANGED hist
  /\ UNCHANGED <<expiration_secs, use_gzip, callers, now, dirs, nputs,
                 nfaults>>

\* a failed write that is swallowed: the store goes on with the next file, and
\* returns after the last
StoreWriteFailSwallowed(p) ==
  /\ proc[p].op = "store" /\ proc[p].pc = "write"
  /\ nfaults < MaxFaults
  /\ nfaults' = nfaults + 1
  /\ IF proc[p].i = Len(Artifacts)
     THEN /\ proc' = [proc EXCEPT ![p].pc = "done",
                                  ![p].result = [kind |-> "stored"]]
          /\ hist' = [hist EXCEPT ![EntryOf(p)].state = "failed"]
     ELSE /\ proc' = [proc EXCEPT ![p].pc = "open", ![p].i = @ + 1]
          /\ UNCHANGED hist
  /\ UNCHANGED <<expiration_secs, use_gzip, callers, now, dirs, files, nputs>>

\* the write fails: the file stays as the open left it
StoreWriteFail(p) ==
  /\ proc[p].op = "store" /\ proc[p].pc = "write"
  /\ nfaults < MaxFaults
  /\ nfaults' = nfaults + 1
  /\ proc' = [proc EXCEPT ![p] = Failed(p, "OSError")]
  /\ hist' = [hist EXCEPT ![EntryOf(p)].state = "failed"]
  /\ UNCHANGED <<expiration_secs, use_gzip, callers, now, dirs, files, nputs>>

\* The caller starts retrieve_response(spider, request); lines 42, 91-92.
RetrieveBegin(p, spider, request) ==
  /\ p \in callers
  /\ proc[p].op = "idle"
  /\ proc' = [proc EXCEPT ![p] =
       [Idle EXCEPT !.op = "retrieve", !.pc = "exists", !.spider = spider,
                    !.request = request,
                    !.rpath = _get_request_path(spider, request)]]
  /\ UNCHANGED <<expiration_secs, use_gzip, callers, now, dirs, files, nputs,
                 nfaults, hist>>

\* a _read_meta that looks for the response's body instead
MetaPathResponseBody(p) == PathJoin(proc[p].rpath, <<"response_body">>)

\* line 92
MetaPath(p) == PathJoin(proc[p].rpath, <<"pickled_meta">>)

\* reads of a retrieve_response that asks for request_body before it takes
\* the response's body
ReadOfCheckingRequest(p) ==
  CASE proc[p].pc = "exists" -> [exists |-> Exists(MetaPath(p))]
    [] proc[p].pc = "stat" ->
         IF MetaPath(p) \in DOMAIN files
         THEN [found |-> TRUE, mtime |-> files[MetaPath(p)].mtime, t |-> now]
         ELSE [found |-> FALSE, mtime |-> 0, t |-> now]
    [] proc[p].pc = "load" -> ReadFile(MetaPath(p))
    [] proc[p].pc = "body" ->
         IF PathJoin(proc[p].rpath, <<"request_body">>) \notin DOMAIN files
         THEN [ok |-> FALSE, err |-> "FileNotFoundError", chunks |-> <<>>]
         ELSE ReadFile(PathJoin(proc[p].rpath, <<"response_body">>))
    [] OTHER -> ReadFile(PathJoin(proc[p].rpath, <<"response_headers">>))

\* What the next statement of p's retrieve_response reads from the
\* filesystem and the clock.
ReadOf(p) ==
  CASE proc[p].pc = "exists" -> [exists |-> Exists(MetaPath(p))]
    [] proc[p].pc = "stat" ->
         IF MetaPath(p) \in DOMAIN files
         THEN [found |-> TRUE, mtime |-> files[MetaPath(p)].mtime, t |-> now]
         ELSE [found |-> FALSE, mtime |-> 0, t |-> now]
    [] proc[p].pc = "load" -> ReadFile(MetaPath(p))
    [] proc[p].pc = "body" ->
         ReadFile(PathJoin(proc[p].rpath, <<"response_body">>))
    [] OTHER -> ReadFile(PathJoin(proc[p].rpath, <<"response_headers">>))

\* The locals of p's retrieve_response after its next statement has read r;
\* the statement changes nothing but these locals.

\* lines 93-94, and 43-44 for the None it returns
AfterExists(p, r) ==
  IF r.exists
  THEN [proc[p] EXCEPT !.pc = "stat"]
  ELSE [proc[p] EXCEPT !.pc = "done", !.result = [kind |-> "absent"]]

\* lines 95-97, and 43-44
AfterStat(p, r) ==
  IF ~r.found
  THEN Failed(p, "FileNotFoundError")
  ELSE IF Expired(r.mtime, r.t)
  THEN [proc[p] EXCEPT !.pc = "done", !.result = [kind |-> "absent"],
                       !.mtime = r.mtime, !.tnow = r.t]
  ELSE [proc[p] EXCEPT !.pc = "load", !.mtime = r.mtime, !.tnow = r.t]

\* lines 98-99
AfterLoad(p, r) ==
  LET u == Unpickle(r.chunks)
  IN  IF ~r.ok THEN Failed(p, r.err)
      ELSE IF ~u.ok THEN Failed(p, u.err)
      ELSE [proc[p] EXCEPT !.pc = "body", !.metadata = u.v,
                           !.from[1] = WriterOf(r.chunks)]

\* lines 45-47
AfterBody(p, r) ==
  IF ~r.ok THEN Failed(p, r.err)
  ELSE [proc[p] EXCEPT !.pc = "headers", !.body = BytesOf(r.chunks),
                       !.from[3] = WriterOf(r.chunks)]

\* lines 48-55
AfterHeaders(p, r) ==
  IF ~r.ok THEN Failed(p, r.err)
  ELSE [proc[p] EXCEPT
          !.pc = "done",
          !.from[2] = WriterOf(r.chunks),
          !.result = BuildResponse(
            proc[p].metadata, BytesOf(r.chunks), proc[p].body,
            [proc[p].from EXCEPT ![2] = WriterOf(r.chunks)])]

ReadMetaExists(p) ==
  /\ proc[p].op = "retrieve" /\ proc[p].pc = "exists"
  /\ proc' = [proc EXCEPT ![p] = AfterExists(p, ReadOf(p))]
  /\ UNCHANGED <<expiration_secs, use_gzip, callers, now, dirs, files, nputs,
                 nfaults, hist>>

\* a _read_meta that removes the entry it finds expired
ReadMetaStatPurging(p) ==
  /\ proc[p].op = "retrieve" /\ proc[p].pc = "stat"
  /\ proc' = [proc EXCEPT ![p] = AfterStat(p, ReadOf(p))]
  /\ files' =
       IF ReadOf(p).found /\ Expired(ReadOf(p).mtime, ReadOf(p).t)
       THEN [f \in {g \in DOMAIN files :
                      SubSeq(g, 1, Len(proc[p].rpath)) # proc[p].rpath} |->
               files[f]]
       ELSE files
  /\ UNCHANGED <<expiration_secs, use_gzip, callers, now, dirs, nputs,
                 nfaults, hist>>

ReadMetaStat(p) ==
  /\ proc[p].op = "retrieve" /\ proc[p].pc = "stat"
  /\ proc' = [proc EXCEPT ![p] = AfterStat(p, ReadOf(p))]
  /\ UNCHANGED <<expiration_secs, use_gzip, callers, now, dirs, files, nputs,
                 nfaults, hist>>

ReadMetaLoad(p) ==
  /\ proc[p].op = "retrieve" /\ proc[p].pc = "load"
  /\ proc' = [proc EXCEPT ![p] = AfterLoad(p, ReadOf(p))]
  /\ UNCHANGED <<expiration_secs, use_gzip, callers, now, dirs, files, nputs,
                 nfaults, hist>>

RetrieveBody(p) ==
  /\ proc[p].op = "retrieve" /\ proc[p].pc = "body"
  /\ proc' = [proc EXCEPT ![p] = AfterBody(p, ReadOf(p))]
  /\ UNCHANGED <<expiration_secs, use_gzip, callers, now, dirs, files, nputs,
                 nfaults, hist>>

RetrieveHeaders(p) ==
  /\ proc[p].op = "retrieve" /\ proc[p].pc = "headers"
  /\ proc' = [proc EXCEPT ![p] = AfterHeaders(p, ReadOf(p))]
  /\ UNCHANGED <<expiration_secs, use_gzip, callers, now, dirs, files, nputs,
                 nfaults, hist>>

\* an open_spider that makes the spider's directory right away
OpenSpiderEager(p, spider) ==
  /\ p \in callers
  /\ proc[p].op = "idle"
  /\ dirs' = dirs \cup Ancestors(<<spider>>)
  /\ proc' = [proc EXCEPT ![p] =
       [Idle EXCEPT !.op = "open_spider", !.pc = "done", !.spider = spider,
                    !.result = [kind |-> "returned"]]]
  /\ UNCHANGED <<expiration_secs, use_gzip, callers, now, files, nputs,
                 nfaults, hist>>

\* open_spider (lines 28-33): a debug line with self.cachedir goes to the log;
\* the call has returned
OpenSpider(p, spider) ==
  /\ p \in callers
  /\ proc[p].op = "idle"
  /\ proc' = [proc EXCEPT ![p] =
       [Idle EXCEPT !.op = "open_spider", !.pc = "done", !.spider = spider,
                    !.result = [kind |-> "returned"]]]
  /\ UNCHANGED <<expiration_secs, use_gzip, callers, now, dirs, files, nputs,
                 nfaults, hist>>

\* close_spider (lines 35-36): pass
CloseSpider(p, spider) ==
  /\ p \in callers
  /\ proc[p].op = "idle"
  /\ proc' = [proc EXCEPT ![p] =
       [Idle EXCEPT !.op = "close_spider", !.pc = "done", !.spider = spider,
                    !.result = [kind |-> "returned"]]]
  /\ UNCHANGED <<expiration_secs, use_gzip, callers, now, dirs, files, nputs,
                 nfaults, hist>>

\* the files store_response writes and retrieve_response never opens
WriteOnly == {"meta", "request_headers", "request_body"}

\* what a file changed from outside holds
Foreign == [gz |-> use_gzip, blob |-> [t |-> "bytes", v |-> <<"?">>], by |-> 0]

\* Something outside the storage removes one of an entry's write-only files,
\* or puts other content into it (creating it when it is not there), while no
\* store_response is running.
Tamper(spider, request, name, remove) ==
  LET f == PathJoin(_get_request_path(spider, request), <<name>>)
  IN  /\ nfaults < MaxFaults
      /\ \A q \in Procs : proc[q].op # "store"
      /\ name \in WriteOnly
      /\ IF remove
         THEN /\ f \in DOMAIN files
              /\ files' = [g \in DOMAIN files \ {f} |-> files[g]]
         ELSE /\ _get_request_path(spider, request) \in dirs
              /\ files' = (f :> [chunks |-> <<Foreign>>, mtime |-> now]) @@ files
      /\ nfaults' = nfaults + 1
      /\ UNCHANGED <<expiration_secs, use_gzip, callers, now, dirs, proc, nputs,
                     hist>>

\* the call has returned or raised; the caller goes on
Return(p) ==
  /\ proc[p].pc = "done"
  /\ proc' = [proc EXCEPT ![p] = Idle]
  /\ UNCHANGED <<expiration_secs, use_gzip, callers, now, dirs, files, nputs,
                 nfaults, hist>>

\* Time passes. The clock counts whole seconds and a call is over in less:
\* the clock moves between calls.
Tick ==
  /\ now < MaxTime
  /\ \A p \in Procs : proc[p].op = "idle"
  /\ now' = now + 1
  /\ UNCHANGED <<expiration_secs, use_gzip, callers, dirs, files, proc, nputs,
                 nfaults, hist>>

\* ----------------------------------------------------------- specifications
\* __init__ (lines 22-26) on a cache directory that does not exist yet
InitStore ==
  /\ expiration_secs \in ExpirationChoices
  /\ use_gzip \in BOOLEAN
  /\ now = 0
  /\ dirs = {}
  /\ files = <<>>
  /\ proc = [p \in Procs |-> Idle]
  /\ nputs = 0
  /\ nfaults = 0
  /\ hist = [e \in EntryIds |-> NoHist]

\* one caller: every call returns before the next starts
Init == InitStore /\ callers = {"p1"}

\* two callers in two processes that share the cache directory
InitConc == InitStore /\ callers = Procs /\ expiration_secs <= 0

\* An entry of request Req1 of spider s1 as an earlier version of the storage
\* left it: complete, its metadata without "response_url".
LegacyMeta ==
  [url |-> Req1.url, method |-> Req1.method, status |-> RespA.status,
   timestamp |-> 0]

LegacyPath == _get_request_path(<<"s1">>, Req1)

LegacyFile(i) ==
  [chunks |-> <<Encode(Payload(i, LegacyMeta, Req1, RespA), 0)>>,
   mtime |-> 0]

InitLegacy ==
  /\ expiration_secs \in ExpirationChoices
  /\ use_gzip \in BOOLEAN
  /\ callers = {"p1"}
  /\ now = 0
  /\ dirs = Ancestors(LegacyPath)
  /\ files = [f \in {ArtifactPath(LegacyPath, i) : i \in 1..Len(Artifacts)} |->
               LegacyFile(CHOOSE i \in 1..Len(Artifacts) :
                            ArtifactPath(LegacyPath, i) = f)]
  /\ proc = [p \in Procs |-> Idle]
  /\ nputs = 0
  /\ nfaults = 0
  /\ hist = [e \in EntryIds |->
               IF e = <<<<"s1">>, _request_key(Req1)>>
               THEN [state |-> "legacy", n |-> 1, id |-> 0, request |-> Req1,
                     response |-> RespA, metadata |-> LegacyMeta,
                     prev |-> NoResponse]
               ELSE NoHist]

\* the calls, on a filesystem that does what it is asked
NextCalls ==
  \/ \E p \in Procs, s \in Scopes, r \in Requests, resp \in Responses :
       StoreBegin(p, s, r, resp)
  \/ \E p \in Procs : StoreExists(p)
  \/ \E p \in Procs : StoreMakedirs(p)
  \/ \E p \in Procs : StoreOpen(p)
  \/ \E p \in Procs : StoreWrite(p)
  \/ \E p \in Procs, s \in Scopes, r \in Requests : RetrieveBegin(p, s, r)
  \/ \E p \in Procs : ReadMetaExists(p)
  \/ \E p \in Procs : ReadMetaStat(p)
  \/ \E p \in Procs : ReadMetaLoad(p)
  \/ \E p \in Procs : RetrieveBody(p)
  \/ \E p \in Procs : RetrieveHeaders(p)
  \/ \E p \in Procs : Return(p)

\* the calls and the clock
Next ==
  \/ NextCalls
  \/ Tick

\* the calls on a filesystem that can refuse a directory, an open or a write
NextFaults ==
  \/ Next
  \/ \E p \in Procs : StoreMakedirsFail(p)
  \/ \E p \in Procs : StoreOpenFail(p)
  \/ \E p \in Procs : StoreWriteFail(p)

Spec == Init /\ [][Next]_vars

SpecFaults == Init /\ [][NextFaults]_vars

SpecLegacy == InitLegacy /\ [][Next]_vars

\* the interleavings of two callers' calls, the clock standing still
SpecConc == InitConc /\ [][NextCalls]_vars

\* the calls of two callers with open_spider and close_spider among them
NextSpider ==
  \/ NextCalls
  \/ \E p \in Procs, s \in Scopes : OpenSpider(p, s)
  \/ \E p \in Procs, s \in Scopes : CloseSpider(p, s)

SpecSpider == InitConc /\ [][NextSpider]_vars

\* the calls of one caller on a cache directory where the write-only files can
\* change from outside, also between two statements of a call
NextTamper ==
  \/ Next
  \/ \E s \in Scopes, r \in Requests, name \in WriteOnly, remove \in BOOLEAN :
       Tamper(s, r, name, remove)

SpecTamper == Init /\ [][NextTamper]_vars

\* the calls of two callers, os.makedirs taken call by call
NextDirs ==
  \/ \E p \in Procs, s \in Scopes, r \in Requests, resp \in Responses :
       StoreBegin(p, s, r, resp)
  \/ \E p \in Procs : StoreExists(p)
  \/ \E p \in Procs : StoreMakedirsHead(p)
  \/ \E p \in Procs : StoreMkdir(p)
  \/ \E p \in Procs : StoreOpen(p)
  \/ \E p \in Procs : StoreWrite(p)
  \/ \E p \in Procs, s \in Scopes, r \in Requests : RetrieveBegin(p, s, r)
  \/ \E p \in Procs : ReadMetaExists(p)
  \/ \E p \in Procs : ReadMetaStat(p)
  \/ \E p \in Procs : ReadMetaLoad(p)
  \/ \E p \in Procs : RetrieveBody(p)
  \/ \E p \in Procs : RetrieveHeaders(p)
  \/ \E p \in Procs : Return(p)

SpecDirs == InitConc /\ [][NextDirs]_vars

\* ------------------------------------------------------------------ claims
\* where the layout puts the entry of a spider and a key, and its files
EntryPath(e) == <<e[1], SubSeq(e[2], 1, 2), e[2]>>
FilePath(e, name) == Append(EntryPath(e), <<name>>)

GetDone(p) == proc[p].op = "retrieve" /\ proc[p].pc = "done"

\* the latest store of p's entry has completed, none has started since
Stored(p) == hist[EntryOf(p)].state = "complete"

\* the age of the entry's pickled_meta is within the expiration
FreshNow(e) ==
  \/ expiration_secs <= 0
  \/ now - files[FilePath(e, "pickled_meta")].mtime <= expiration_secs

SameResponse(res, resp) ==
  /\ res.kind = "response"
  /\ res.status = resp.status
  /\ res.body = resp.body
  /\ res.url = resp.url
  /\ HeaderPairs(res.headers) = HeaderPairs(resp.headers)

\* Header lines as HTTP parsing delivers them: no name or value starts or ends
\* with whitespace or holds a line break, no name holds a colon.
WireBytes(b) == strip(b) = b /\ \A i \in 1..Len(b) : b[i] \notin {"\r", "\n"}

WireForm(headers) ==
  \A i \in 1..Len(headers) :
    /\ WireBytes(headers[i][1])
    /\ \A k \in 1..Len(headers[i][1]) : headers[i][1][k] # ":"
    /\ \A j \in 1..Len(headers[i][2]) : WireBytes(headers[i][2][j])

\* C1 as stated: a retrieve_response that follows a completed store_response
\* of the same spider and request in the same second returns the stored
\* response's status, body, url and header pairs, whatever the response.
C1_RoundTripEveryResponse ==
  \A p \in Procs :
    (GetDone(p) /\ Stored(p)
       /\ now = hist[EntryOf(p)].metadata.timestamp)
    => SameResponse(proc[p].result, hist[EntryOf(p)].response)

\* C1 amended: the status, body and url come back for every response, the
\* header pairs for every response whose headers are in wire form.
C1_RoundTrip ==
  \A p \in Procs :
    (GetDone(p) /\ Stored(p)
       /\ now = hist[EntryOf(p)].metadata.timestamp)
    => LET res == proc[p].result
           resp == hist[EntryOf(p)].response
       IN  /\ res.kind = "response"
           /\ res.status = resp.status
           /\ res.body = resp.body
           /\ res.url = resp.url
           /\ WireForm(resp.headers)
                => HeaderPairs(res.headers) = HeaderPairs(resp.headers)

\* a redirected response with two values under one name and an empty body,
\* stored compressed, has come back whole
C1_Witness ==
  \E p \in Procs :
    /\ GetDone(p) /\ Stored(p)
    /\ now = hist[EntryOf(p)].metadata.timestamp
    /\ use_gzip
    /\ hist[EntryOf(p)].response = RespB
    /\ hist[EntryOf(p)].request.url # RespB.url
    /\ SameResponse(proc[p].result, RespB)

\* every artifact of the entry exists
AllPresent(e) ==
  \A i \in 1..Len(Artifacts) : FilePath(e, Artifacts[i]) \in DOMAIN files

MetaAge(e) == now - files[FilePath(e, "pickled_meta")].mtime

\* C3: with expiration T > 0, a retrieve_response of a stored entry whose
\* pickled_meta was written at t0 returns the response while now - t0 <= T and
\* None once now - t0 > T.
C3_ExpirationBoundary ==
  \A p \in Procs :
    (GetDone(p) /\ Stored(p) /\ expiration_secs > 0)
    => /\ MetaAge(EntryOf(p)) <= expiration_secs
            => proc[p].result.kind = "response"
       /\ MetaAge(EntryOf(p)) > expiration_secs
            => proc[p].result.kind = "absent"

\* a response has been returned at exactly t0 + T
C3_Witness ==
  \E p \in Procs :
    /\ GetDone(p) /\ Stored(p) /\ expiration_secs > 0
    /\ MetaAge(EntryOf(p)) = expiration_secs
    /\ proc[p].result.kind = "response"

\* C4: with expiration 0 or negative, a retrieve_response of a stored entry
\* returns the response however old the entry is.
C4_NeverExpire ==
  \A p \in Procs :
    (GetDone(p) /\ Stored(p) /\ expiration_secs <= 0)
    => proc[p].result.kind = "response"

\* with a negative expiration a response has been returned for an entry as old
\* as the clock allows
C4_Witness ==
  \E p \in Procs :
    /\ GetDone(p) /\ Stored(p) /\ expiration_secs < 0
    /\ MetaAge(EntryOf(p)) = MaxTime
    /\ proc[p].result.kind = "response"

\* C5: a retrieve_response of a spider and key on which no store_response has
\* ever started returns None, and raises nothing.
C5_MissOnAbsence ==
  \A p \in Procs :
    (GetDone(p) /\ hist[EntryOf(p)].state = "none")
    => proc[p].result.kind = "absent"

\* None has been returned while not even the cache directory existed
C5_Witness ==
  \E p \in Procs :
    /\ GetDone(p) /\ hist[EntryOf(p)].state = "none"
    /\ dirs = {}
    /\ proc[p].result.kind = "absent"

\* what a completed store of the entry leaves in its i-th artifact
Written(e, i) ==
  <<[gz |-> use_gzip,
     blob |-> Payload(i, hist[e].metadata, hist[e].request, hist[e].response),
     by |-> hist[e].id]>>

\* every artifact of the entry holds what the latest store wrote, and only that
HoldsLatest(e) ==
  \A i \in 1..Len(Artifacts) :
    /\ FilePath(e, Artifacts[i]) \in DOMAIN files
    /\ files[FilePath(e, Artifacts[i])].chunks = Written(e, i)

Overwritten(e) == hist[e].state = "complete" /\ hist[e].n >= 2

\* C7 as stated: after two stores completed one after the other on one entry,
\* every artifact holds exactly what the second wrote, and a retrieve_response
\* that follows returns exactly the second response.
C7_OverwriteReturnsExactly ==
  /\ \A e \in EntryIds : Overwritten(e) => HoldsLatest(e)
  /\ \A p \in Procs :
       (GetDone(p) /\ Overwritten(EntryOf(p)) /\ FreshNow(EntryOf(p)))
       => SameResponse(proc[p].result, hist[EntryOf(p)].response)

\* C7 amended: every artifact holds exactly what the second store wrote, and
\* the retrieve_response returns the second response's status, body and url,
\* and its header pairs when its headers are in wire form.
C7_OverwriteReplaces ==
  /\ \A e \in EntryIds : Overwritten(e) => HoldsLatest(e)
  /\ \A p \in Procs :
       (GetDone(p) /\ Overwritten(EntryOf(p)) /\ FreshNow(EntryOf(p)))
       => LET res == proc[p].result
              resp == hist[EntryOf(p)].response
          IN  /\ res.kind = "response"
              /\ res.status = resp.status
              /\ res.body = resp.body
              /\ res.url = resp.url
              /\ WireForm(resp.headers)
                   => HeaderPairs(res.headers) = HeaderPairs(resp.headers)

\* RespB stored over RespA has come back
C7_Witness ==
  \E p \in Procs :
    /\ GetDone(p) /\ Overwritten(EntryOf(p))
    /\ hist[EntryOf(p)].prev = RespA
    /\ hist[EntryOf(p)].response = RespB
    /\ HoldsLatest(EntryOf(p))
    /\ SameResponse(proc[p].result, RespB)

\* pickled_meta is there and fresh, the response's body or headers are not
Corrupt(e) ==
  /\ FilePath(e, "pickled_meta") \in DOMAIN files
  /\ FreshNow(e)
  /\ \/ FilePath(e, "response_body") \notin DOMAIN files
     \/ FilePath(e, "response_headers") \notin DOMAIN files

\* C6: a retrieve_response of an entry whose pickled_meta is there and fresh
\* while response_body or response_headers is missing ends with an error,
\* neither None nor a response, and leaves every file and directory as it was.
C6_CorruptionDetected ==
  [][\A p \in Procs :
       (/\ proc[p].op = "retrieve" /\ proc[p].pc # "done"
        /\ proc'[p].pc = "done"
        /\ Corrupt(EntryOf(p)))
       => /\ proc'[p].result.kind = "error"
          /\ files' = files
          /\ dirs' = dirs]_vars

\* an error has been raised for an entry that has its headers but no body
C6_Witness ==
  \E p \in Procs :
    /\ GetDone(p)
    /\ Corrupt(EntryOf(p))
    /\ FilePath(EntryOf(p), "response_headers") \in DOMAIN files
    /\ FilePath(EntryOf(p), "response_body") \notin DOMAIN files
    /\ proc[p].result.kind = "error"

\* C8: no statement of retrieve_response, whatever the call returns, changes a
\* file's content, a file's modification time or the set of directories.
C8_GetReadOnly ==
  [][\A p \in Procs :
       (/\ proc[p].op = "retrieve" \/ proc'[p].op = "retrieve"
        /\ proc'[p] # proc[p])
       => files' = files /\ dirs' = dirs]_vars

\* None has been returned for an expired entry, and every artifact is still
\* there as stored
C8_Witness ==
  \E p \in Procs :
    /\ GetDone(p) /\ Stored(p)
    /\ ~FreshNow(EntryOf(p))
    /\ proc[p].result.kind = "absent"
    /\ HoldsLatest(EntryOf(p))

\* C2: a retrieve_response that runs while a store_response writes the same
\* entry returns None or a response whose metadata, headers and body were all
\* written by one store; it never reads an entry that is partly written. (An
\* error is counted here as a read refused, in the claim's favour.)
C2_AllOrNothing ==
  \A p \in Procs :
    (GetDone(p) /\ proc[p].result.kind = "response")
    => /\ proc[p].result.from[1] = proc[p].result.from[2]
       /\ proc[p].result.from[2] = proc[p].result.from[3]

\* the entry a step of p's store_response works on
StoreEntry(p) ==
  IF proc[p].op = "store" THEN EntryOf(p)
  ELSE <<proc'[p].spider, _request_key(proc'[p].request)>>

EntryFiles(e) == {FilePath(e, Artifacts[i]) : i \in 1..Len(Artifacts)}

\* C9: a statement of a store_response on a spider and key changes no file
\* but the six of <spider>/<key[0:2]>/<key>, makes no directory but that one
\* and its ancestors, and changes nothing of what the next statement of a
\* retrieve_response on another spider or key reads, nor that call's locals.
C9_Isolation ==
  [][\A p \in Procs :
       (/\ proc[p].op = "store" \/ proc'[p].op = "store"
        /\ proc'[p] # proc[p])
       => LET e == StoreEntry(p)
              own == EntryFiles(e)
          IN  /\ \/ files' = files
                 \/ \A f \in (DOMAIN files \cup DOMAIN files') \ own :
                      /\ f \in DOMAIN files
                      /\ f \in DOMAIN files'
                      /\ files'[f] = files[f]
              /\ \/ dirs' = dirs
                 \/ /\ dirs \subseteq dirs'
                    /\ dirs' \ dirs \subseteq Ancestors(EntryPath(e))
              /\ \A q \in Procs \ {p} :
                   (/\ proc[q].op = "retrieve" /\ proc[q].pc # "done"
                    /\ EntryOf(q) # e)
                   => proc'[q] = proc[q] /\ ReadOf(q)' = ReadOf(q)]_vars

\* a response has been returned for one key while the store of another key of
\* the same spider and the same two-character directory is writing its body
C9_Witness ==
  \E p \in Procs, q \in Procs :
    /\ proc[p].op = "store" /\ proc[p].pc = "write" /\ proc[p].i = 4
    /\ GetDone(q)
    /\ proc[q].spider = proc[p].spider
    /\ EntryOf(q) # EntryOf(p)
    /\ proc[q].result.kind = "response"

\* C10: for a fresh, complete entry whose metadata has no "response_url",
\* retrieve_response returns a response with the request's url of the metadata.
C10_UrlFallback ==
  \A p \in Procs :
    (/\ GetDone(p)
     /\ hist[EntryOf(p)].state = "legacy"
     /\ AllPresent(EntryOf(p))
     /\ FreshNow(EntryOf(p)))
    => /\ proc[p].result.kind = "response"
       /\ proc[p].result.url = hist[EntryOf(p)].metadata.url

SpiderCall(rec) == rec.op \in {"open_spider", "close_spider"}

\* C11: open_spider and close_spider, called any number of times, in any order
\* and between the statements of other callers' stores and retrieves, return
\* without an error, create no directory and no file, change no file, and
\* leave every other call's locals and what its next statement reads as they
\* are, so that no later store or retrieve can tell that they ran.
C11_OpenCloseNoOps ==
  [][\A p \in Procs :
       (SpiderCall(proc'[p]) /\ ~SpiderCall(proc[p]))
       => /\ proc'[p].pc = "done"
          /\ proc'[p].result.kind = "returned"
          /\ files' = files
          /\ dirs' = dirs
          /\ hist' = hist
          /\ <<expiration_secs, use_gzip, now>>' = <<expiration_secs, use_gzip, now>>
          /\ \A q \in Procs \ {p} :
               /\ proc'[q] = proc[q]
               /\ (proc[q].op = "retrieve" /\ proc[q].pc # "done")
                    => ReadOf(q)' = ReadOf(q)]_vars

\* open_spider has returned for a spider that has no directory, while another
\* caller's store is between the open and the write of a file
C11_Witness ==
  \E p \in Procs, q \in Procs :
    /\ proc[p].op = "open_spider"
    /\ proc[p].result.kind = "returned"
    /\ <<proc[p].spider>> \notin dirs
    /\ proc[q].op = "store" /\ proc[q].pc = "write"

\* the order the claim gives
WriteOrder ==
  <<"meta", "pickled_meta", "response_headers", "response_body",
    "request_headers", "request_body">>

\* the places in that order of the files that hold something the store with
\* this id wrote
WrittenBy(e, id) ==
  {k \in 1..Len(WriteOrder) :
     /\ FilePath(e, WriteOrder[k]) \in DOMAIN files
     /\ \E j \in 1..Len(files[FilePath(e, WriteOrder[k])].chunks) :
          files[FilePath(e, WriteOrder[k])].chunks[j].by = id}

\* C12: at every point of a store_response the files it has written so far are
\* the first n of meta, pickled_meta, response_headers, response_body,
\* request_headers, request_body: none before the directory exists, the first
\* i - 1 while it opens or writes the i-th, all six once it has returned, the
\* first i - 1 when the i-th open or write has failed.
C12_WriteOrder ==
  \A p \in Procs :
    (proc[p].op = "store" /\ hist[EntryOf(p)].id = proc[p].id)
    => LET W == WrittenBy(EntryOf(p), proc[p].id)
       IN  /\ \E n \in 0..Len(WriteOrder) : W = 1..n
           /\ W # {} => EntryPath(EntryOf(p)) \in dirs
           /\ proc[p].pc \in {"exists", "makedirs"} => W = {}
           /\ proc[p].pc \in {"open", "write"}
                => /\ W = 1..(proc[p].i - 1)
                   /\ EntryPath(EntryOf(p)) \in dirs
           /\ (proc[p].pc = "done" /\ proc[p].result.kind = "stored")
                => W = 1..Len(WriteOrder)
           /\ (proc[p].pc = "done" /\ proc[p].result.kind = "error")
                => W = 1..(proc[p].i - 1) \/ proc[p].i = 0

\* a store over an earlier entry is about to open response_body: the first
\* three files are its own, the last three still the earlier store's
C12_Witness ==
  \E p \in Procs :
    /\ proc[p].op = "store" /\ proc[p].pc = "open" /\ proc[p].i = 4
    /\ WrittenBy(EntryOf(p), proc[p].id) = 1..3
    /\ hist[EntryOf(p)].n = 1
    /\ \E id \in 1..MaxPuts :
         id # proc[p].id /\ WrittenBy(EntryOf(p), id) = 4..6

\* every file but f is there or not as before, with the content and the
\* modification time it had
OnlyChanges(f) ==
  \A g \in (DOMAIN files \cup DOMAIN files') \ {f} :
    /\ g \in DOMAIN files
    /\ g \in DOMAIN files'
    /\ files'[g] = files[g]

\* C13: when the open or the write of the i-th file of a store_response fails,
\* the call ends there with the error; the first i - 1 files hold what this
\* store wrote into them; and the files after the i-th are as they were before
\* the store, because a statement of a store changes no file but the one its
\* index i stands at, the index never goes back, and a call that has ended
\* changes nothing.
C13_WriteFailureAborts ==
  [][\A p \in Procs :
       (proc[p].op = "store" /\ proc'[p] # proc[p])
       => /\ IF proc[p].pc \in {"open", "write"}
             THEN OnlyChanges(ArtifactPath(proc[p].rpath, proc[p].i))
             ELSE files' = files
          /\ proc'[p].op = "store" => proc'[p].i >= proc[p].i
          /\ (proc[p].pc \in {"open", "write"} /\ nfaults' # nfaults)
               => /\ proc'[p].pc = "done"
                  /\ proc'[p].result.kind = "error"
                  /\ \A j \in 1..(proc[p].i - 1) :
                       files'[ArtifactPath(proc[p].rpath, j)].chunks
                         = Written(EntryOf(p), j)]_vars

\* the write of response_body has failed in a store over an earlier entry: the
\* store has raised, the first three files are its own, request_headers and
\* request_body are the earlier store's
C13_Witness ==
  \E p \in Procs :
    /\ proc[p].op = "store" /\ proc[p].pc = "done" /\ proc[p].i = 4
    /\ proc[p].result.kind = "error"
    /\ nfaults = 1
    /\ FilePath(EntryOf(p), "response_body") \in DOMAIN files
    /\ files[FilePath(EntryOf(p), "response_body")].chunks = <<>>
    /\ WrittenBy(EntryOf(p), proc[p].id) = 1..3
    /\ \E id \in 1..MaxPuts :
         id # proc[p].id /\ WrittenBy(EntryOf(p), id) = 5..6

\* the latest store of the entry ended at os.makedirs, before line 64
FailedAtMakedirs(e) == hist[e].state = "failed" /\ hist[e].metadata = NoMeta

\* C14: when os.makedirs is refused, store_response ends there with the error
\* and is not tried again; no statement of the call up to and including the
\* refusal, and none after it, changes a file, so every file of every key is as
\* before the call; and a retrieve_response that follows returns None, as it
\* did before the call, when the entry had no directory.
C14_MakedirsFailure ==
  [][\A p \in Procs :
       /\ (/\ proc[p].op = "store" /\ proc[p].pc = "makedirs"
           /\ nfaults' # nfaults)
          => /\ proc'[p].pc = "done"
             /\ proc'[p].result.kind = "error"
             /\ FailedAtMakedirs(EntryOf(p))'
       /\ (/\ proc[p].op = "store" /\ proc'[p] # proc[p]
           /\ \/ proc[p].pc \in {"exists", "makedirs"}
              \/ proc[p].pc = "done")
          => files' = files
       /\ (proc[p].op = "store" /\ proc[p].pc = "done" /\ proc'[p] # proc[p])
          => proc'[p] = Idle /\ dirs' = dirs
       /\ (/\ proc[p].op = "retrieve" /\ proc[p].pc # "done"
           /\ proc'[p].pc = "done"
           /\ FailedAtMakedirs(EntryOf(p)))
          => proc'[p].result.kind = "absent"]_vars

\* None has been returned for a key whose store ended at a refused leaf
\* directory, while another key of the same spider holds its entry whole
C14_Witness ==
  \E p \in Procs, e \in EntryIds :
    /\ GetDone(p)
    /\ FailedAtMakedirs(EntryOf(p))
    /\ nfaults = 1
    /\ EntryPath(EntryOf(p)) \notin dirs
    /\ proc[p].result.kind = "absent"
    /\ e # EntryOf(p) /\ e[1] = proc[p].spider
    /\ hist[e].state = "complete"
    /\ HoldsLatest(e)

\* The store that completed last on the entry wrote request_body last: the
\* file's modification time is the time that store completed.
CompletedStore(e) ==
  /\ hist[e].n > 0
  /\ FilePath(e, "request_body") \in DOMAIN files
  /\ files[FilePath(e, "request_body")].chunks # <<>>

SinceCompleted(e) == now - files[FilePath(e, "request_body")].mtime

\* C15: with expiration T > 0, a retrieve_response returns None for an entry
\* on which no store has completed; the latest response stored, while the store
\* that completed last is no older than T; and None once that store is older
\* than T, until another store on the entry completes.
C15_Lifecycle ==
  \A p \in Procs :
    (GetDone(p) /\ expiration_secs > 0)
    => LET e == EntryOf(p)
           res == proc[p].result
       IN  /\ hist[e].n = 0 => res.kind = "absent"
           /\ (CompletedStore(e) /\ SinceCompleted(e) > expiration_secs)
                => res.kind = "absent"
           /\ (Stored(p) /\ SinceCompleted(e) <= expiration_secs)
                => /\ res.kind = "response"
                   /\ res.status = hist[e].response.status
                   /\ res.body = hist[e].response.body
                   /\ res.url = hist[e].response.url

\* pickled_meta is not there, or expiration is on and the file is older
MetaMissingOrExpired(e) ==
  \/ FilePath(e, "pickled_meta") \notin DOMAIN files
  \/ /\ expiration_secs > 0
     /\ now - files[FilePath(e, "pickled_meta")].mtime > expiration_secs

\* C16: retrieve_response returns None exactly when pickled_meta does not
\* exist or expiration is on and pickled_meta is older than it, whatever the
\* state of the five other files: an expired entry without its response files
\* reads as None, and an entry whose pickled_meta a store has written reads as
\* a response or an error, never as None, while it is fresh.
C16_MissByPickledMeta ==
  \A p \in Procs :
    GetDone(p)
    => (proc[p].result.kind = "absent" <=> MetaMissingOrExpired(EntryOf(p)))

\* None has been returned for an expired entry that a failed store left with
\* meta and pickled_meta only
C16_Witness ==
  \E p \in Procs :
    /\ GetDone(p)
    /\ proc[p].result.kind = "absent"
    /\ FilePath(EntryOf(p), "pickled_meta") \in DOMAIN files
    /\ files[FilePath(EntryOf(p), "pickled_meta")].chunks # <<>>
    /\ FilePath(EntryOf(p), "response_headers") \notin DOMAIN files
    /\ FilePath(EntryOf(p), "response_body") \notin DOMAIN files
    /\ ~FreshNow(EntryOf(p))

\* C17: retrieve_response does not depend on meta, request_headers and
\* request_body. Between two states of the cache directory that differ in one
\* of these files only (there or not, or with other content) and agree on
\* everything else, every statement of a retrieve_response reads the same and
\* the call's locals are the same, so the call returns the same in both; for a
\* stored, fresh entry that is the stored response.
C17_WriteOnlyArtifacts ==
  [][/\ (nfaults' # nfaults /\ files' # files)
          => \A q \in Procs :
               /\ proc'[q] = proc[q]
               /\ (proc[q].op = "retrieve" /\ proc[q].pc # "done")
                    => ReadOf(q)' = ReadOf(q)
     /\ \A p \in Procs :
          (/\ proc[p].op = "retrieve" /\ proc[p].pc # "done"
           /\ proc'[p].pc = "done"
           /\ Stored(p) /\ FreshNow(EntryOf(p)))
          => /\ proc'[p].result.kind = "response"
             /\ proc'[p].result.status = hist[EntryOf(p)].response.status
             /\ proc'[p].result.body = hist[EntryOf(p)].response.body
             /\ proc'[p].result.url = hist[EntryOf(p)].response.url]_vars

\* the stored response has been returned for an entry whose request_body has
\* been removed
C17_Witness ==
  \E p \in Procs :
    /\ GetDone(p) /\ Stored(p)
    /\ nfaults = 1
    /\ FilePath(EntryOf(p), "request_body") \notin DOMAIN files
    /\ FilePath(EntryOf(p), "meta") \in DOMAIN files
    /\ proc[p].result.kind = "response"
    /\ proc[p].result.body = hist[EntryOf(p)].response.body

\* what the next statement of p's retrieve_response reads is what the latest
\* store of the entry wrote
ReadsLatest(p) ==
  LET r == ReadOf(p)
      id == hist[EntryOf(p)].id
  IN  CASE proc[p].pc = "exists" -> r.exists
        [] proc[p].pc = "stat" -> r.found
        [] OTHER -> r.ok /\ WriterOf(r.chunks) = id

\* C18: with two callers whose stores never work on one key at once, and
\* os.makedirs taken call by call, every store_response returns without an
\* error, whatever directories the other caller makes meanwhile; the entry of
\* a completed store holds what that store wrote; every read a
\* retrieve_response makes of such an entry finds that; and a
\* retrieve_response that has read nothing else returns the stored response.
C18_ConcurrentPuts ==
  /\ \A p \in Procs :
       (proc[p].op = "store" /\ proc[p].pc = "done")
       => proc[p].result.kind = "stored"
  /\ \A e \in EntryIds : hist[e].state = "complete" => HoldsLatest(e)
  /\ \A q \in Procs :
       (proc[q].op = "retrieve" /\ proc[q].pc # "done" /\ Stored(q))
       => ReadsLatest(q)
  /\ \A q \in Procs :
       (/\ GetDone(q) /\ Stored(q)
        /\ proc[q].result.kind = "response"
        /\ \A k \in 1..3 : proc[q].result.from[k] = hist[EntryOf(q)].id)
       => /\ proc[q].result.status = hist[EntryOf(q)].response.status
          /\ proc[q].result.body = hist[EntryOf(q)].response.body
          /\ proc[q].result.url = hist[EntryOf(q)].response.url

\* One caller has stored a key and read its response back, while the other
\* caller's store of the other key of that spider, which found no shard
\* directory when it looked, is about to make the shard directory that is
\* there by now.
C18_Witness ==
  \E p \in Procs, q \in Procs :
    /\ GetDone(p) /\ Stored(p)
    /\ proc[p].result.kind = "response"
    /\ proc[p].result.body = hist[EntryOf(p)].response.body
    /\ proc[q].op = "store" /\ proc[q].pc = "mkdir" /\ proc[q].up = 1
    /\ proc[q].spider = proc[p].spider
    /\ EntryOf(q) # EntryOf(p)
    /\ MakedirsName(q) \in dirs

====
